---- MODULE Spec2Model ----
(***************************************************************************)
(* dBVoir (src/automation/dbvoir.py): the download-completion detector.    *)
(* A watchdog observer thread runs MusicProcessor.on_created/on_modified/  *)
(* on_closed for filesystem notifications; the main thread runs            *)
(* watch_directory's loop, calling process_pending once per second.  Both  *)
(* threads share pending_imports and processed_files without a lock.       *)
(***************************************************************************)
EXTENDS Integers, Sequences, FiniteSets, TLC

(* ---------------------------- bounds ----------------------------------- *)
\* the clock stops advancing here
MaxTime == 11
\* notifications the observer delivers in one run
MaxEvents == 2
\* writes, truncations and deletions the downloader performs in one run
MaxFsOps == 2

(* ------------------------- configuration ------------------------------- *)
\* CONFIG['watch_delay']: int(os.getenv('WATCH_DELAY', '30')); the model
\* runs the program with WATCH_DELAY=6 in its environment
watch_delay == 6
\* the literal 5 of process_pending's settle check
SettleMargin == 5
\* time.sleep(2) of on_closed
ClosedSleep == 2
\* time.sleep(1) of watch_directory's loop
PollSleep == 1

file_extensions == {".mp3", ".flac", ".m4a", ".ogg", ".opus", ".wav", ".wma"}

(* ----------------------------- paths ----------------------------------- *)
\* a path is its parent directory, stem and suffix (pathlib.Path)
MkPath(parent, stem, suffix) == [parent |-> parent, stem |-> stem, suffix |-> suffix]

\* a track the downloader writes while the program runs, and a text file
\* that sits in the watched directory from the start
Track == MkPath("soulseek", "a", ".FLAC")
Notes == MkPath("soulseek", "c", ".txt")
Paths == {Track, Notes}
Downloads == {Track}
NoPath == MkPath("", "", "")

\* Path.parent
Parent(path) == MkPath("music", path.parent, "")
\* the directories whose own events the observer reports (recursive=True)
Dirs == {Parent(Track)}

\* str.lower() on the suffixes that occur
Lower(s) ==
  CASE s = ".MP3"  -> ".mp3"
    [] s = ".FLAC" -> ".flac"
    [] s = ".TXT"  -> ".txt"
    [] OTHER       -> s

Threads == {"observer", "main"}
EventKinds == {"created", "modified", "closed"}
NoEvent == [kind |-> "none", src_path |-> NoPath, is_directory |-> FALSE]
NoFile == [exists |-> FALSE, size |-> 0, mtime |-> 0]
\* a file that sits in the watched directory when the program starts
OldFile == [exists |-> TRUE, size |-> 1, mtime |-> 0]
\* process_file has not run subprocess.run
NoResult == [exc |-> "unset", returncode |-> 0, stdout |-> {}]

VARIABLES
  now,              \* time.time()
  fs,               \* the watched files: exists, size (0 or 1 = nonzero), mtime
  pending_imports,  \* MusicProcessor.pending_imports, a dict in insertion order
  processed_files,  \* module-level processed_files
  pc,               \* position of each thread
  event,            \* the event the observer thread is handling
  mtime,            \* handle_file's local mtime
  sleeping,         \* time left of each thread's time.sleep
  current_time,     \* process_pending's local current_time
  items,            \* process_pending's list(self.pending_imports.items())
  to_process,       \* process_pending's local to_process
  import_path,      \* the target of each thread's running import
  nevents,          \* notifications delivered so far
  nfsops,           \* filesystem operations so far
  \* history variables, read by the properties only
  launches,         \* imports launched per path that have not failed
  absent,           \* the file was missing or empty when the handler looked
  seen_processed,   \* processed_files when each thread's handler or cycle began
  stat_errors,      \* entries whose stat raised in the current poll cycle
  quiet,            \* promotions of a path since it became pending undisturbed
  rescans,          \* the rescan calls of each thread's current dispatch: did
                    \* the server accept the request
  result,           \* process_file's local result: what subprocess.run did
  renotified,       \* a handler stored the path the poll loop is dispatching
  relaunched        \* pending paths with a launch since they were last stored

vars == <<now, fs, pending_imports, processed_files, pc, event, mtime, sleeping,
          current_time, items, to_process, import_path, nevents, nfsops,
          launches, absent, seen_processed, stat_errors,
          quiet, rescans, result, renotified, relaunched>>

(* --------------------- the pending_imports dict ------------------------ *)
Keys(d) == {d[i].path : i \in 1..Len(d)}

Get(d, path) == d[CHOOSE i \in 1..Len(d) : d[i].path = path].added_time

\* d[path] = t : an existing key keeps its place, a new one goes last
Put(d, path, t) ==
  IF path \in Keys(d)
  THEN [i \in 1..Len(d) |-> IF d[i].path = path
                            THEN [path |-> path, added_time |-> t] ELSE d[i]]
  ELSE Append(d, [path |-> path, added_time |-> t])

\* a promotion that forgets to delete the entry
Del_keep(d, path) == d

\* del d[path]
Del(d, path) == SelectSeq(d, LAMBDA e : e.path # path)

\* an allow-list that lets every suffix through
IsMusic_any(path) == TRUE

(* ----------------------------- guards ---------------------------------- *)
\* line 85: path.suffix.lower() in CONFIG['file_extensions']
IsMusic(path) == Lower(path.suffix) \in file_extensions

\* line 89: path.exists() and st_size != 0
ExistsNonEmpty(f) == f.exists /\ f.size # 0

\* a dispatch that never looks at processed_files
AlreadyProcessed_never(path) == FALSE

\* lines 93, 117: str(path) in processed_files
AlreadyProcessed(path) == path \in processed_files

\* a quiet period that is never applied
TooNew_never(age) == FALSE

\* a quiet period that is off by one
TooNew_inclusive(age) == age <= watch_delay

\* line 101: age < CONFIG['watch_delay']
TooNew(age) == age < watch_delay

\* a poll loop for which the quiet period is never over
QuietElapsed_never(t, added_time) == FALSE

\* line 166: current_time - added_time >= CONFIG['watch_delay']
QuietElapsed(t, added_time) == t - added_time >= watch_delay

\* a settle margin that is never applied
Settled_always(t, m) == TRUE

\* line 172: current_time - mtime >= 5
Settled(t, m) == t - m >= SettleMargin

\* a classification that takes every finished run for a success
ImportSucceeded_always(res) == TRUE

\* a classification that only looks at the exit status
ImportSucceeded_exit0(res) == res.returncode = 0

\* a classification with the exit status test inverted
ImportSucceeded_inverted(res) ==
  \/ res.returncode # 0
  \/ "Skipping" \in res.stdout
  \/ "not match" \in res.stdout

\* line 145: returncode == 0 or 'Skipping' in stdout or 'not match' in stdout
ImportSucceeded(res) ==
  \/ res.returncode = 0
  \/ "Skipping" \in res.stdout
  \/ "not match" \in res.stdout

\* line 125: path.parent if path.is_file() else path
ImportPath(path, f) == IF f.exists THEN Parent(path) ELSE path

\* what subprocess.run can do: return, time out, or fail to launch; stdout
\* is the set of markers in it, and is not read at line 145 after an exit
\* status of 0
ImportResults ==
  { [exc |-> "none", returncode |-> 1, stdout |-> out] :
      out \in {{}, {"Skipping"}, {"not match"}} }
  \cup { [exc |-> "none", returncode |-> 0, stdout |-> {}] }
  \cup { [exc |-> x, returncode |-> 0, stdout |-> {}] :
      x \in {"TimeoutExpired", "Exception"} }

(* ------------------------------ Init ----------------------------------- *)
Init ==
  /\ now = 0
  /\ fs = [p \in Paths |-> IF p \in Downloads THEN NoFile ELSE OldFile]
  /\ pending_imports = <<>>
  /\ processed_files = {}
  /\ pc = [t \in Threads |-> IF t = "main" THEN "sleep" ELSE "idle"]
  /\ event = NoEvent
  /\ mtime = 0
  /\ sleeping = [t \in Threads |-> IF t = "main" THEN PollSleep ELSE 0]
  /\ current_time = 0
  /\ items = <<>>
  /\ to_process = <<>>
  /\ import_path = [t \in Threads |-> NoPath]
  /\ nevents = 0
  /\ nfsops = 0
  /\ launches = [p \in Paths |-> 0]
  /\ absent = FALSE
  /\ seen_processed = [t \in Threads |-> {}]
  /\ stat_errors = {}
  /\ quiet = [p \in Paths |-> -1]
  /\ rescans = [t \in Threads |-> <<>>]
  /\ result = [t \in Threads |-> NoResult]
  /\ renotified = FALSE
  /\ relaunched = {}

(* --------------------------- environment ------------------------------- *)
\* a thread is in time.sleep, waiting for an event, or waiting for the import
Blocked(t) == pc[t] \in {"idle", "sleep", "closed_sleep", "pf_running", "dead"}

\* the clock advances by one second.  Straight-line handler code takes far
\* less than a second, so the clock moves only while both threads are blocked.
Tick ==
  /\ now < MaxTime
  /\ \A t \in Threads : Blocked(t)
  /\ now' = now + 1
  /\ sleeping' = [t \in Threads |-> IF sleeping[t] > 0 THEN sleeping[t] - 1 ELSE 0]
  /\ UNCHANGED <<fs, pending_imports, processed_files, pc, event, mtime,
                 current_time, items, to_process, import_path, nevents, nfsops,
                 launches, absent, seen_processed,
                 stat_errors, quiet, rescans, result, renotified, relaunched>>

\* the downloader changes a file: the history variable quiet forgets the path
FsOp(path, f) ==
  /\ nfsops < MaxFsOps
  /\ fs' = [fs EXCEPT ![path] = f]
  /\ nfsops' = nfsops + 1
  /\ quiet' = [quiet EXCEPT ![path] = -1]
  /\ UNCHANGED <<now, pending_imports, processed_files, pc, event, mtime, sleeping,
                 current_time, items, to_process, import_path, nevents,
                 launches, absent, seen_processed,
                 stat_errors, rescans, result, renotified, relaunched>>

\* the downloader writes data to a file, creating it if needed
FsWrite(path) == FsOp(path, [exists |-> TRUE, size |-> 1, mtime |-> now])

\* the downloader creates an empty file or truncates one
FsTruncate(path) == FsOp(path, [exists |-> TRUE, size |-> 0, mtime |-> now])

\* the file is removed or moved away
FsDelete(path) == fs[path].exists /\ FsOp(path, NoFile)

(* ------------------------- observer thread ----------------------------- *)
\* the path process_file was called with on thread t
FilePath(t) == IF t = "observer" THEN event.src_path ELSE Head(to_process)

\* process_file returns to its caller
Return(t) ==
  /\ pc' = [pc EXCEPT ![t] = IF t = "main" THEN "promote" ELSE "done"]
  /\ to_process' = IF t = "main" THEN Tail(to_process) ELSE to_process
  /\ renotified' = IF t = "main" THEN FALSE ELSE renotified
  /\ UNCHANGED relaunched

\* watchdog calls the handler for one notification
Deliver(kind, path, is_directory) ==
  /\ pc["observer"] = "idle"
  /\ nevents < MaxEvents
  /\ event' = [kind |-> kind, src_path |-> path, is_directory |-> is_directory]
  /\ pc' = [pc EXCEPT !["observer"] = "on_" \o kind]
  /\ nevents' = nevents + 1
  /\ seen_processed' = [seen_processed EXCEPT !["observer"] = processed_files]
  /\ quiet' = IF path \in Paths THEN [quiet EXCEPT ![path] = -1] ELSE quiet
  /\ UNCHANGED <<now, fs, pending_imports, processed_files, mtime, sleeping,
                 current_time, items, to_process, import_path, nfsops,
                 launches, absent, stat_errors, rescans, result, renotified,
                 relaunched>>

\* on_created / on_modified, and handle_file up to the suffix check; both
\* handlers pass on event.src_path only, so the kind of the event is forgotten
OnCreatedModified ==
  /\ pc["observer"] \in {"on_created", "on_modified"}
  /\ pc' = [pc EXCEPT !["observer"] =
              IF event.is_directory \/ ~IsMusic(event.src_path)
              THEN "done" ELSE "hf_exists"]
  /\ event' = [event EXCEPT !.kind = "handle_file"]
  /\ UNCHANGED <<now, fs, pending_imports, processed_files, mtime, sleeping,
                 current_time, items, to_process, import_path, nevents, nfsops,
                 launches, absent, seen_processed,
                 stat_errors, quiet, rescans, result, renotified, relaunched>>

\* handle_file line 89: exists() and stat(), outside the try block; a stat
\* that raises (locked file, file gone after exists()) escapes the handler
HfExists(stat_raises) ==
  /\ pc["observer"] = "hf_exists"
  /\ LET f == fs[event.src_path] IN
       /\ stat_raises => f.exists
       /\ pc' = [pc EXCEPT !["observer"] =
                   IF stat_raises THEN "raised"
                   ELSE IF ~ExistsNonEmpty(f) THEN "done" ELSE "hf_processed"]
       /\ absent' = (~stat_raises /\ ~ExistsNonEmpty(f))
  /\ UNCHANGED <<now, fs, pending_imports, processed_files, event, mtime, sleeping,
                 current_time, items, to_process, import_path, nevents, nfsops,
                 launches, seen_processed, stat_errors,
                 quiet, rescans, result, renotified, relaunched>>

\* handle_file line 93
HfProcessed ==
  /\ pc["observer"] = "hf_processed"
  /\ pc' = [pc EXCEPT !["observer"] =
              IF AlreadyProcessed(event.src_path) THEN "done" ELSE "hf_stat"]
  /\ UNCHANGED <<now, fs, pending_imports, processed_files, event, mtime, sleeping,
                 current_time, items, to_process, import_path, nevents, nfsops,
                 launches, absent, seen_processed,
                 stat_errors, quiet, rescans, result, renotified, relaunched>>

\* handle_file line 98: stat() inside the try block; OSError is caught at 109
HfStat(stat_raises) ==
  /\ pc["observer"] = "hf_stat"
  /\ LET f == fs[event.src_path] IN
       /\ ~f.exists => stat_raises
       /\ pc' = [pc EXCEPT !["observer"] = IF stat_raises THEN "done" ELSE "hf_age"]
       /\ mtime' = IF stat_raises THEN mtime ELSE f.mtime
  /\ UNCHANGED <<now, fs, pending_imports, processed_files, event, sleeping,
                 current_time, items, to_process, import_path, nevents, nfsops,
                 launches, absent, seen_processed,
                 stat_errors, quiet, rescans, result, renotified, relaunched>>

\* handle_file lines 99-108: too new -> pending, else process_file; the local
\* mtime is not read again
HfAge ==
  /\ pc["observer"] = "hf_age"
  /\ mtime' = 0
  /\ LET path == event.src_path
         age  == now - mtime
     IN IF TooNew(age)
        THEN /\ pending_imports' = Put(pending_imports, path, now)
             /\ pc' = [pc EXCEPT !["observer"] = "done"]
             /\ relaunched' = relaunched \ {path}
             /\ renotified' = (\/ renotified
                               \/ /\ pc["main"] \in {"pf_check", "pf_launch",
                                                     "pf_running", "pf_rescan"}
                                  /\ Head(to_process) = path)
             /\ quiet' = [quiet EXCEPT ![path] =
                            IF ExistsNonEmpty(fs[path]) /\ fs[path].mtime = mtime
                            THEN 0 ELSE -1]
        ELSE /\ pc' = [pc EXCEPT !["observer"] = "pf_check"]
             /\ UNCHANGED <<pending_imports, quiet, renotified, relaunched>>
  /\ UNCHANGED <<now, fs, processed_files, event, sleeping, current_time,
                 items, to_process, import_path, nevents, nfsops, launches,
                 absent, seen_processed, stat_errors, rescans, result>>

\* an on_closed that takes the entry out of pending_imports before dispatching
OnClosed_del ==
  /\ pc["observer"] = "on_closed"
  /\ LET go == ~event.is_directory /\ event.src_path \in Keys(pending_imports) IN
       /\ pc' = [pc EXCEPT !["observer"] = IF go THEN "closed_sleep" ELSE "done"]
       /\ sleeping' = [sleeping EXCEPT !["observer"] = IF go THEN ClosedSleep ELSE @]
       /\ absent' = (~event.is_directory /\ ~ExistsNonEmpty(fs[event.src_path]))
       /\ pending_imports' = IF go THEN Del(pending_imports, event.src_path)
                             ELSE pending_imports
  /\ UNCHANGED <<now, fs, processed_files, event, mtime,
                 current_time, items, to_process, import_path, nevents, nfsops,
                 launches, seen_processed, stat_errors,
                 quiet, rescans, result, renotified, relaunched>>

\* on_closed lines 71-77: a pending path is processed after a 2 second sleep
OnClosed ==
  /\ pc["observer"] = "on_closed"
  /\ LET go == ~event.is_directory /\ event.src_path \in Keys(pending_imports) IN
       /\ pc' = [pc EXCEPT !["observer"] = IF go THEN "closed_sleep" ELSE "done"]
       /\ sleeping' = [sleeping EXCEPT !["observer"] = IF go THEN ClosedSleep ELSE @]
       /\ absent' = (~event.is_directory /\ ~ExistsNonEmpty(fs[event.src_path]))
  /\ UNCHANGED <<now, fs, pending_imports, processed_files, event, mtime,
                 current_time, items, to_process, import_path, nevents, nfsops,
                 launches, seen_processed, stat_errors,
                 quiet, rescans, result, renotified, relaunched>>

\* on_closed line 78: the sleep is over, process_file is called
ClosedWake ==
  /\ pc["observer"] = "closed_sleep"
  /\ sleeping["observer"] = 0
  /\ pc' = [pc EXCEPT !["observer"] = "pf_check"]
  /\ UNCHANGED <<now, fs, pending_imports, processed_files, event, mtime, sleeping,
                 current_time, items, to_process, import_path, nevents, nfsops,
                 launches, absent, seen_processed,
                 stat_errors, quiet, rescans, result, renotified, relaunched>>

\* the handler has returned (or raised): the observer waits for the next event
ObsReturn ==
  /\ pc["observer"] \in {"done", "raised"}
  /\ pc' = [pc EXCEPT !["observer"] = "idle"]
  /\ event' = NoEvent
  /\ mtime' = 0
  /\ absent' = FALSE
  /\ seen_processed' = [seen_processed EXCEPT !["observer"] = {}]
  /\ rescans' = [rescans EXCEPT !["observer"] = <<>>]
  /\ result' = [result EXCEPT !["observer"] = NoResult]
  /\ UNCHANGED <<now, fs, pending_imports, processed_files, sleeping,
                 current_time, items, to_process, import_path, nevents, nfsops,
                 launches, stat_errors, quiet, renotified, relaunched>>

(* --------------------- process_file, on either thread ------------------ *)
\* line 117
PfCheck(t) ==
  /\ pc[t] = "pf_check"
  /\ IF AlreadyProcessed(FilePath(t))
     THEN Return(t)
     ELSE pc' = [pc EXCEPT ![t] = "pf_launch"]
          /\ UNCHANGED <<to_process, renotified, relaunched>>
  /\ UNCHANGED <<now, fs, pending_imports, processed_files, event, mtime, sleeping,
                 current_time, items, import_path, nevents, nfsops, launches,
                 absent, seen_processed, stat_errors,
                 quiet, rescans, result>>

\* lines 125-143: the import target is chosen and subprocess.run starts
PfLaunch(t) ==
  /\ pc[t] = "pf_launch"
  /\ LET path == FilePath(t) IN
       /\ import_path' = [import_path EXCEPT ![t] = ImportPath(path, fs[path])]
       /\ launches' = [launches EXCEPT ![path] = @ + 1]
       /\ relaunched' = IF path \in Keys(pending_imports)
                        THEN relaunched \cup {path} ELSE relaunched
  /\ pc' = [pc EXCEPT ![t] = "pf_running"]
  /\ UNCHANGED <<now, fs, pending_imports, processed_files, event, mtime, sleeping,
                 current_time, items, to_process, nevents, nfsops, absent,
                 seen_processed, stat_errors, quiet, rescans, result,
                 renotified>>

\* lines 145-158: subprocess.run returns or raises
PfFinish(t, res) ==
  /\ pc[t] = "pf_running"
  /\ import_path' = [import_path EXCEPT ![t] = NoPath]
  /\ result' = [result EXCEPT ![t] = res]
  /\ IF res.exc = "none" /\ ImportSucceeded(res)
     THEN /\ processed_files' = processed_files \cup {FilePath(t)}
          /\ pc' = [pc EXCEPT ![t] = "pf_rescan"]
          /\ UNCHANGED <<to_process, launches, renotified, relaunched>>
     ELSE /\ launches' = [launches EXCEPT ![FilePath(t)] = @ - 1]
          /\ Return(t)
          /\ UNCHANGED processed_files
  /\ UNCHANGED <<now, fs, pending_imports, event, mtime, sleeping, current_time,
                 items, nevents, nfsops, absent, seen_processed, stat_errors,
                 quiet, rescans>>

\* what trigger_jellyfin_rescan (lines 182-212) can meet: no key, no url, a
\* 200/204 answer, another status, an exception of requests.post
RescanOutcomes == {"no_api_key", "no_url", "ok", "bad_status", "exception"}

\* lines 198-209: only a 200 or 204 answer is logged as a triggered rescan
RescanAccepted(outcome) == outcome = "ok"

\* a dispatch that takes the path back out of processed_files when the server
\* did not accept the rescan request
PfRescan_undo(t, outcome) ==
  /\ pc[t] = "pf_rescan"
  /\ outcome \in RescanOutcomes
  /\ rescans' = [rescans EXCEPT ![t] = Append(@, RescanAccepted(outcome))]
  /\ result' = [result EXCEPT ![t] = NoResult]
  /\ processed_files' = IF RescanAccepted(outcome) THEN processed_files
                        ELSE processed_files \ {FilePath(t)}
  /\ Return(t)
  /\ UNCHANGED <<now, fs, pending_imports, event, mtime, sleeping,
                 current_time, items, import_path, nevents, nfsops, launches,
                 absent, seen_processed, stat_errors, quiet>>

\* line 149: the rescan call logs its outcome and returns; the local result
\* is not read again
PfRescan(t, outcome) ==
  /\ pc[t] = "pf_rescan"
  /\ outcome \in RescanOutcomes
  /\ rescans' = [rescans EXCEPT ![t] = Append(@, RescanAccepted(outcome))]
  /\ result' = [result EXCEPT ![t] = NoResult]
  /\ Return(t)
  /\ UNCHANGED <<now, fs, pending_imports, processed_files, event, mtime, sleeping,
                 current_time, items, import_path, nevents, nfsops, launches,
                 absent, seen_processed, stat_errors, quiet>>

(* --------------------------- main thread ------------------------------- *)
\* lines 166-172 for one entry; stat raising is caught at 174
Promotable(e, t, raising) ==
  /\ QuietElapsed(t, e.added_time)
  /\ ExistsNonEmpty(fs[e.path])
  /\ e.path \notin raising
  /\ Settled(t, fs[e.path].mtime)

\* the entries whose files are stat()ed: quiet period over and file present
Statted(d, t) == {d[i].path : i \in {j \in 1..Len(d) :
                     QuietElapsed(t, d[j].added_time) /\ fs[d[j].path].exists}}

\* lines 162-175: the scan of process_pending, in the dict's order
ToProcess(d, t, raising) ==
  LET ready == SelectSeq(d, LAMBDA e : Promotable(e, t, raising))
  IN [i \in 1..Len(ready) |-> ready[i].path]

PollScan(raising) ==
  /\ pc["main"] = "sleep"
  /\ sleeping["main"] = 0
  /\ raising \subseteq Statted(pending_imports, now)
  /\ current_time' = now
  /\ items' = pending_imports
  /\ to_process' = ToProcess(pending_imports, now, raising)
  /\ stat_errors' = raising
  /\ seen_processed' = [seen_processed EXCEPT !["main"] = processed_files]
  /\ pc' = [pc EXCEPT !["main"] = "promote"]
  /\ UNCHANGED <<now, fs, pending_imports, processed_files, event, mtime, sleeping,
                 import_path, nevents, nfsops, launches, absent, quiet, rescans,
                 result, renotified, relaunched>>

\* lines 177-179: del self.pending_imports[file_path], then process_file;
\* del raises KeyError on an absent key, which ends the main thread; the
\* scan's locals are not read after the last deletion
PollPromote ==
  /\ pc["main"] = "promote"
  /\ to_process # <<>>
  /\ LET path == Head(to_process) IN
       IF path \in Keys(pending_imports)
       THEN /\ pending_imports' = Del(pending_imports, path)
            /\ pc' = [pc EXCEPT !["main"] = "pf_check"]
            /\ quiet' = [quiet EXCEPT ![path] = IF @ >= 0 THEN @ + 1 ELSE @]
            /\ relaunched' = relaunched \ {path}
       ELSE /\ pc' = [pc EXCEPT !["main"] = "dead"]
            /\ UNCHANGED <<pending_imports, quiet, relaunched>>
  /\ rescans' = [rescans EXCEPT !["main"] = <<>>]
  /\ result' = [result EXCEPT !["main"] = NoResult]
  /\ current_time' = IF Len(to_process) = 1 THEN 0 ELSE current_time
  /\ items' = IF Len(to_process) = 1 THEN <<>> ELSE items
  /\ UNCHANGED <<now, fs, processed_files, event, mtime, sleeping, to_process,
                 import_path, nevents, nfsops, launches, absent,
                 seen_processed, stat_errors, renotified>>

\* process_pending returns; watch_directory sleeps one second (line 234)
PollEnd ==
  /\ pc["main"] = "promote"
  /\ to_process = <<>>
  /\ pc' = [pc EXCEPT !["main"] = "sleep"]
  /\ sleeping' = [sleeping EXCEPT !["main"] = PollSleep]
  /\ current_time' = 0
  /\ items' = <<>>
  /\ stat_errors' = {}
  /\ seen_processed' = [seen_processed EXCEPT !["main"] = {}]
  /\ rescans' = [rescans EXCEPT !["main"] = <<>>]
  /\ result' = [result EXCEPT !["main"] = NoResult]
  /\ UNCHANGED <<now, fs, pending_imports, processed_files, event, mtime,
                 to_process, import_path, nevents, nfsops, launches, absent, quiet,
                 renotified, relaunched>>

(* ------------------------------ Next ----------------------------------- *)
Next ==
  \/ Tick
  \/ \E path \in Downloads : FsWrite(path)
  \/ \E path \in Downloads : FsTruncate(path)
  \/ \E path \in Downloads : FsDelete(path)
  \/ \E kind \in EventKinds, path \in Paths \cup Dirs :
        Deliver(kind, path, path \in Dirs)
  \/ OnCreatedModified
  \/ \E r \in BOOLEAN : HfExists(r)
  \/ HfProcessed
  \/ \E r \in BOOLEAN : HfStat(r)
  \/ HfAge
  \/ OnClosed
  \/ ClosedWake
  \/ ObsReturn
  \/ \E t \in Threads : PfCheck(t)
  \/ \E t \in Threads : PfLaunch(t)
  \/ \E t \in Threads, res \in ImportResults : PfFinish(t, res)
  \/ \E t \in Threads, outcome \in RescanOutcomes : PfRescan(t, outcome)
  \/ \E raising \in SUBSET Paths : PollScan(raising)
  \/ PollPromote
  \/ PollEnd

Spec == Init /\ [][Next]_vars

(* ------------- the program under a clock that keeps running ------------ *)
\* every test of the code compares an age with watch_delay or less, so all
\* timestamps at least watch_delay behind MaxTime are equally old
Oldest == MaxTime - watch_delay

\* a timestamp one second later, seen from a clock reading that stays MaxTime
Shift(ts) == IF ts > Oldest THEN ts - 1 ELSE ts

\* the clock advances by one second, without end: once the reading is MaxTime
\* the timestamps move back instead of the reading moving on
TickOn ==
  /\ \A t \in Threads : Blocked(t)
  /\ sleeping' = [t \in Threads |-> IF sleeping[t] > 0 THEN sleeping[t] - 1 ELSE 0]
  /\ IF now < MaxTime
     THEN /\ now' = now + 1
          /\ UNCHANGED <<fs, pending_imports>>
     ELSE /\ now' = now
          /\ fs' = [p \in Paths |-> [fs[p] EXCEPT !.mtime = Shift(@)]]
          /\ pending_imports' =
               [i \in 1..Len(pending_imports) |->
                  [pending_imports[i] EXCEPT !.added_time = Shift(@)]]
  /\ UNCHANGED <<processed_files, pc, event, mtime,
                 current_time, items, to_process, import_path, nevents, nfsops,
                 launches, absent, seen_processed,
                 stat_errors, quiet, rescans, result, renotified, relaunched>>

\* the steps of the main thread: watch_directory's loop (lines 232-236) with a
\* stat that never fails, and the dispatches it makes; subprocess.run returns
\* within its timeout of 600 seconds, requests.post within 10
MainStep ==
  \/ PollScan({})
  \/ PollPromote
  \/ PollEnd
  \/ PfCheck("main")
  \/ PfLaunch("main")
  \/ \E res \in ImportResults : PfFinish("main", res)
  \/ \E outcome \in RescanOutcomes : PfRescan("main", outcome)

\* the steps of the observer thread once a notification is delivered, with a
\* stat that never fails
ObsStep ==
  \/ OnCreatedModified
  \/ HfExists(FALSE)
  \/ HfProcessed
  \/ HfStat(FALSE)
  \/ HfAge
  \/ OnClosed
  \/ ClosedWake
  \/ ObsReturn
  \/ PfCheck("observer")
  \/ PfLaunch("observer")
  \/ \E res \in ImportResults : PfFinish("observer", res)
  \/ \E outcome \in RescanOutcomes : PfRescan("observer", outcome)

\* the downloader has written the track for the last time, at second 0 or 1;
\* a created notification may have made it pending at second 0
LiveInit ==
  \E m \in {0, 1}, stored \in BOOLEAN :
    /\ now = 1
    /\ fs = [p \in Paths |-> IF p \in Downloads
                             THEN [exists |-> TRUE, size |-> 1, mtime |-> m]
                             ELSE OldFile]
    /\ pending_imports = IF stored THEN <<[path |-> Track, added_time |-> 0]>>
                         ELSE <<>>
    /\ processed_files = {}
    /\ pc = [t \in Threads |-> IF t = "main" THEN "sleep" ELSE "idle"]
    /\ event = NoEvent
    /\ mtime = 0
    /\ sleeping = [t \in Threads |-> 0]
    /\ current_time = 0
    /\ items = <<>>
    /\ to_process = <<>>
    /\ import_path = [t \in Threads |-> NoPath]
    /\ nevents = IF stored THEN 1 ELSE 0
    /\ nfsops = MaxFsOps
    /\ launches = [p \in Paths |-> 0]
    /\ absent = FALSE
    /\ seen_processed = [t \in Threads |-> {}]
    /\ stat_errors = {}
    /\ quiet = [p \in Paths |-> -1]
    /\ rescans = [t \in Threads |-> <<>>]
    /\ result = [t \in Threads |-> NoResult]
    /\ renotified = FALSE
    /\ relaunched = {}

\* the file stays as it is; notifications about it still arrive
LiveNext ==
  \/ TickOn
  \/ \E kind \in EventKinds : Deliver(kind, Track, FALSE)
  \/ MainStep
  \/ ObsStep

\* both threads keep running and time keeps advancing
LiveSpec ==
  /\ LiveInit
  /\ [][LiveNext]_vars
  /\ WF_vars(TickOn)
  /\ WF_vars(MainStep)
  /\ WF_vars(ObsStep)

(* ============================ properties ============================== *)
Elems(seq) == {seq[i] : i \in 1..Len(seq)}

\* steps of one thread
StepOf(t) == pc'[t] # pc[t]

\* C1: leaving failed imports aside, the import tool is launched at most
\* once for every path, under any interleaving of handlers and poll cycles.
C1_LaunchedAtMostOnce ==
  \A p \in Paths : launches[p] <= 1

\* C2: a handler or poll cycle that begins when a path is already in
\* processed_files launches no import for that path and neither adds nor
\* refreshes a pending entry for it.
C2_ProcessedIsFinal ==
  /\ [](\A t \in Threads : pc[t] \in {"pf_launch", "pf_running"}
                             => FilePath(t) \notin seen_processed[t])
  /\ [][\A t \in Threads : \A p \in seen_processed[t] :
          StepOf(t) =>
            /\ launches'[p] <= launches[p]
            /\ processed_files' = processed_files
            /\ p \in Keys(pending_imports') =>
                 /\ p \in Keys(pending_imports)
                 /\ Get(pending_imports', p) = Get(pending_imports, p)]_vars

\* C2 witness: a poll cycle that began after the path was processed is
\* dispatching that path
C2_Witness ==
  /\ pc["main"] = "pf_check"
  /\ Head(to_process) \in seen_processed["main"]

\* C3: no path is at once a key of pending_imports and in processed_files.
C3_PendingNotProcessed ==
  Keys(pending_imports) \cap processed_files = {}

C5_Serialized ==
  pc["main"] = "promote" =>
    \A p \in Elems(to_process) :
      /\ p \in Keys(pending_imports)
      /\ Get(pending_imports, p) = Get(items, p)

\* C6: at most one import is running at any time.
C6_NoOverlap ==
  Cardinality({t \in Threads : pc[t] = "pf_running"}) <= 1

\* C7: a path whose lower-cased suffix is outside file_extensions never gets
\* a pending entry and never has an import launched.
C7_NonMusicIgnored ==
  \A p \in Paths :
    Lower(p.suffix) \notin file_extensions =>
      p \notin Keys(pending_imports) /\ launches[p] = 0

\* C7 witness: the handler of a created event for the text file has returned
C7_Witness ==
  /\ pc["observer"] = "done"
  /\ event = [kind |-> "handle_file", src_path |-> Notes, is_directory |-> FALSE]

\* C8: once a handler has found its path missing or empty, none of its steps
\* changes pending_imports or processed_files or launches an import.
C8_AbsentNoOp ==
  [][absent /\ StepOf("observer") =>
       UNCHANGED <<pending_imports, processed_files, launches>>]_vars

\* C9: when handle_file compares the age, an age of at least watch_delay
\* calls process_file at once and leaves pending_imports alone; a smaller
\* age stores the current time as the path's pending entry, launches
\* nothing and ends the handler.
C9_AgeDecides ==
  [][pc["observer"] = "hf_age" /\ StepOf("observer") =>
       IF now - mtime >= watch_delay
       THEN /\ pc'["observer"] = "pf_check"
            /\ pending_imports' = pending_imports
       ELSE /\ pc'["observer"] = "done"
            /\ event.src_path \in Keys(pending_imports')
            /\ Get(pending_imports', event.src_path) = now
            /\ launches' = launches]_vars

\* C9 witness: a created/modified event for an old file went straight to
\* process_file without a pending entry
C9_Witness ==
  /\ pc["observer"] = "pf_check"
  /\ event.kind = "handle_file"
  /\ now - fs[event.src_path].mtime >= watch_delay
  /\ event.src_path \notin Keys(pending_imports)

\* C10: for a path made pending and left alone since (no write, no
\* notification): no scan before added_time + watch_delay selects it; a scan
\* at or after added_time + watch_delay + settle margin whose stat succeeds
\* selects it; a selected path is deleted from pending_imports as it is
\* dispatched; and the poll loop promotes it at most once.
C10_PromotedOnce ==
  /\ [](\A p \in Paths : quiet[p] <= 1)
  /\ [][pc["main"] = "sleep" /\ pc'["main"] = "promote" =>
          \A i \in 1..Len(pending_imports) :
            LET e == pending_imports[i] IN
              /\ now < e.added_time + watch_delay
                   => e.path \notin Elems(to_process')
              /\ (/\ quiet[e.path] = 0
                  /\ now >= e.added_time + watch_delay + SettleMargin
                  /\ e.path \notin stat_errors')
                   => e.path \in Elems(to_process')]_vars
  /\ [][pc["main"] = "promote" /\ pc'["main"] = "pf_check" =>
          Head(to_process) \notin Keys(pending_imports')]_vars

\* C10 witness: a scan at added_time + watch_delay + settle margin has
\* selected a path that was left alone since it became pending
C10_Witness ==
  /\ pc["main"] = "promote"
  /\ Track \in Elems(to_process)
  /\ quiet[Track] = 0
  /\ current_time = Get(items, Track) + watch_delay + SettleMargin

\* C11: a poll cycle does not select, and leaves in pending_imports with its
\* first-seen time, every entry that fails the re-check: quiet period not
\* elapsed, file missing or empty, stat raising, or mtime less than the settle
\* margin in the past.  No step of the poll loop touches an entry that the
\* scan did not select.
C11_UnreadyKept ==
  /\ [][pc["main"] = "sleep" /\ pc'["main"] = "promote" =>
          \A i \in 1..Len(pending_imports) :
            LET e == pending_imports[i]
                f == fs[e.path]
            IN (\/ now - e.added_time < watch_delay
                \/ ~f.exists
                \/ f.size = 0
                \/ e.path \in stat_errors'
                \/ now - f.mtime < SettleMargin)
               => e.path \notin Elems(to_process')]_vars
  /\ [][StepOf("main") =>
          \A i \in 1..Len(pending_imports) :
            LET e == pending_imports[i]
            IN e.path \notin Elems(to_process) =>
                 /\ e.path \in Keys(pending_imports')
                 /\ Get(pending_imports', e.path) = e.added_time]_vars

\* the scan has passed over an entry whose quiet period is over but whose file
\* was written less than the settle margin ago
C11_Witness ==
  /\ pc["main"] = "promote"
  /\ Track \in Keys(items)
  /\ Track \in Keys(pending_imports)
  /\ current_time - Get(items, Track) >= watch_delay
  /\ ExistsNonEmpty(fs[Track])
  /\ current_time - fs[Track].mtime < SettleMargin
  /\ Track \notin Elems(to_process)

\* the import tool ran to its end and either exited with status 0 or printed
\* one of the two markers
ToolSucceeded(res) ==
  /\ res.exc = "none"
  /\ \/ res.returncode = 0
     \/ "Skipping" \in res.stdout
     \/ "not match" \in res.stdout

\* C12: when an import ends with exit status 0, or with a nonzero status and
\* a skip / no-match marker in its output, the path is put in processed_files
\* and the dispatch goes on to the rescan call with no call made yet; the
\* rescan step finds the path already recorded, makes one call and returns;
\* no dispatch ever makes more than one call.
C12_RecordThenRescanOnce ==
  /\ [][\A t \in Threads :
          pc[t] = "pf_running" /\ StepOf(t) /\ ToolSucceeded(result'[t]) =>
            /\ FilePath(t) \in processed_files'
            /\ pc'[t] = "pf_rescan"
            /\ rescans'[t] = <<>>]_vars
  /\ [][\A t \in Threads :
          pc[t] = "pf_rescan" /\ StepOf(t) =>
            /\ FilePath(t) \in processed_files
            /\ Len(rescans'[t]) = 1
            /\ pc'[t] \in {"done", "promote"}]_vars
  /\ [](\A t \in Threads : Len(rescans[t]) <= 1)

\* the poll loop's import ended with a nonzero status and the Skipping marker:
\* the path is recorded and the rescan call is next
C12_Witness ==
  /\ pc["main"] = "pf_rescan"
  /\ result["main"].returncode = 1
  /\ "Skipping" \in result["main"].stdout
  /\ Head(to_process) \in processed_files
  /\ rescans["main"] = <<>>

\* C13: when an import times out, fails to launch, or ends with a nonzero
\* status and no marker, processed_files is unchanged, no rescan call is made
\* and process_file returns normally to its caller.
C13_FailureLeavesNoTrace ==
  [][\A t \in Threads :
       pc[t] = "pf_running" /\ StepOf(t) /\ ~ToolSucceeded(result'[t]) =>
         /\ processed_files' = processed_files
         /\ rescans' = rescans
         /\ rescans[t] = <<>>
         /\ pc'[t] = IF t = "main" THEN "promote" ELSE "done"]_vars

\* the observer's import timed out and the handler is about to return
C13_Witness ==
  /\ pc["observer"] = "done"
  /\ result["observer"].exc = "TimeoutExpired"
  /\ event.src_path \notin processed_files
  /\ rescans["observer"] = <<>>

\* C14: when an import fails (timeout, launch failure, or a nonzero status
\* without a marker) the path is then in neither processed_files nor
\* pending_imports, unless a handler stored it anew while the poll loop's
\* import of it was running; so only a new notification can bring it back.
C14_FailedForgotten ==
  [][\A t \in Threads :
       pc[t] = "pf_running" /\ StepOf(t) /\ ~ToolSucceeded(result'[t]) =>
         /\ FilePath(t) \notin processed_files'
         /\ FilePath(t) \in Keys(pending_imports') => t = "main" /\ renotified]_vars

\* C15: whatever the rescan call meets (no API key, no URL, a refused or
\* failed request, a timeout), the step that makes it leaves processed_files
\* as it was, with the dispatched path in it, and process_file returns
\* normally to its caller.
C15_RescanFailureSwallowed ==
  [][\A t \in Threads :
       pc[t] = "pf_rescan" /\ StepOf(t) =>
         /\ processed_files' = processed_files
         /\ FilePath(t) \in processed_files'
         /\ pc'[t] = IF t = "main" THEN "promote" ELSE "done"]_vars

\* the observer's dispatch has returned after a rescan call that the server
\* did not accept, and the path is recorded
C15_Witness ==
  /\ pc["observer"] = "done"
  /\ rescans["observer"] = <<FALSE>>
  /\ event.src_path \in processed_files

\* C16: a stat that raises while a create/modify notification is evaluated
\* never lets an exception escape the handler: the observer is never left
\* with a handler that ended by raising.
C16_StatErrorContained == pc["observer"] # "raised"

\* C17: every running import was given the directory that contains the
\* dispatched path as its target, on either thread and on every route.
C17_TargetIsParent ==
  \A t \in Threads :
    pc[t] = "pf_running" => import_path[t] = Parent(FilePath(t))

\* C18: processed_files only grows, and a path is added only by the step that
\* ends an import of that same path with exit status 0 or a marker.
C18_ProcessedGrowsBySuccess ==
  [][/\ processed_files \subseteq processed_files'
     /\ \A p \in processed_files' \ processed_files :
          \E t \in Threads :
            /\ pc[t] = "pf_running"
            /\ StepOf(t)
            /\ FilePath(t) = p
            /\ ToolSucceeded(result'[t])]_vars

\* the observer's import of the track exited 0 and the track is recorded
C18_Witness ==
  /\ pc["observer"] = "pf_rescan"
  /\ result["observer"].returncode = 0
  /\ processed_files = {Track}
  /\ event.src_path = Track

\* the track is pending, has data, and the downloader will not write again
C19_Stable ==
  /\ Track \in Keys(pending_imports)
  /\ ExistsNonEmpty(fs[Track])
  /\ nfsops = MaxFsOps

\* an import of the track is about to be launched
C19_Launching == \E t \in Threads : pc[t] = "pf_launch" /\ FilePath(t) = Track

\* an import has just ended in failure
C19_Failed ==
  \E t \in Threads : result[t] # NoResult /\ ~ToolSucceeded(result[t])

\* C19 as stated: once the track is pending and stable, it is eventually
\* removed from pending_imports, an import of it is eventually launched, and
\* unless an import fails it eventually is in processed_files.
C19_DrainedAndLaunched ==
  /\ C19_Stable ~> Track \notin Keys(pending_imports)
  /\ C19_Stable ~> (C19_Launching \/ Track \in relaunched)
  /\ C19_Stable ~> (Track \in processed_files \/ C19_Failed)

\* C19: once the track is pending and stable, it is eventually removed from
\* pending_imports; an import of it is eventually launched unless the track
\* is in processed_files by then; and unless an import fails it eventually is
\* in processed_files.
C19_Drained ==
  /\ C19_Stable ~> Track \notin Keys(pending_imports)
  /\ C19_Stable ~> (C19_Launching \/ Track \in relaunched
                    \/ Track \in processed_files)
  /\ C19_Stable ~> (Track \in processed_files \/ C19_Failed)

\* the poll loop has taken the stable track out of pending_imports and its
\* import is running
C19_Witness ==
  /\ pc["main"] = "pf_running"
  /\ Head(to_process) = Track
  /\ Track \notin Keys(pending_imports)
  /\ ExistsNonEmpty(fs[Track])
  /\ nfsops = MaxFsOps

\* C20: no step of the observer thread removes a key from pending_imports, so
\* every path the scan selected is still a key until the poll loop deletes
\* it, and the poll loop never ends on a KeyError.
C20_DeleteFindsKey ==
  /\ [][StepOf("observer") =>
          Keys(pending_imports) \subseteq Keys(pending_imports')]_vars
  /\ [](pc["main"] = "promote" => Elems(to_process) \subseteq Keys(pending_imports))
  /\ [](pc["main"] # "dead")

\* a handler has overwritten the entry of a selected path between the scan and
\* the deletion: the key is still there
C20_Witness ==
  /\ pc["main"] = "promote"
  /\ to_process # <<>>
  /\ Head(to_process) \in Keys(pending_imports)
  /\ Get(pending_imports, Head(to_process)) # Get(items, Head(to_process))

====
